---- MODULE Spec2Model ----
(***************************************************************************)
(* Macro analysis of compiler/basic_analysis.py: _iter_macros extracts the  *)
(* DEFINE declarations of a source text, analyse_macros counts the uses of  *)
(* each macro name, write_manifest serialises the records.                  *)
(* Toolchain bootstrap of compiler/toolchain.py: ensure_nesasm clones the   *)
(* assembler, applies NESASM_PATCHES with _apply_patch and builds it.       *)
(*                                                                          *)
(* A text is a sequence of one-character strings.  Positions are 1-based:   *)
(* position p of the model is Python's index p - 1, and Python's "not       *)
(* found" (-1, None) is position 0.                                         *)
(***************************************************************************)
EXTENDS Integers, Sequences, FiniteSets, TLC

VARIABLES source, macros, spans, manifest, pc,
          upstream, repo_exists, files, binary_exists, tpc, force, patch_idx,
          result, settled

macroVars == <<source, macros, spans, manifest, pc>>

toolVars == <<upstream, repo_exists, files, binary_exists, tpc, force,
              patch_idx, result, settled>>

vars == <<macroVars, toolVars>>

(***************************************************************************)
(* Character classes of Python's re module: \s and \w (ASCII part).         *)
(***************************************************************************)
Whitespace == {" ", "\t", "\n", "\r", "\f"}

WordChars ==
    {"A","B","C","D","E","F","G","H","I","J","K","L","M",
     "N","O","P","Q","R","S","T","U","V","W","X","Y","Z",
     "a","b","c","d","e","f","g","h","i","j","k","l","m",
     "n","o","p","q","r","s","t","u","v","w","x","y","z",
     "0","1","2","3","4","5","6","7","8","9","_"}

IsSpace(c) == c \in Whitespace

IsWord(c) == c \in WordChars

\* The literal keyword the header pattern starts with.
Keyword == <<"D","E","F","I","N","E">>

\* source[p : p + len(lit)] == lit
StartsWith(s, p, lit) ==
    /\ p >= 1
    /\ p + Len(lit) - 1 <= Len(s)
    /\ SubSeq(s, p, p + Len(lit) - 1) = lit

\* str.find(c, p): the first position >= p holding c, 0 when there is none.
RECURSIVE FindChar(_, _, _)
FindChar(s, c, p) ==
    IF p > Len(s) THEN 0
    ELSE IF s[p] = c THEN p
    ELSE FindChar(s, c, p + 1)

\* \s* from p, greedy: the first position >= p that holds no whitespace.
RECURSIVE SkipSpace(_, _)
SkipSpace(s, p) ==
    IF p <= Len(s) /\ IsSpace(s[p]) THEN SkipSpace(s, p + 1) ELSE p

\* [^,\s]+ from p, greedy: the first position >= p holding a comma or
\* whitespace (or the end of the text).
RECURSIVE NameRunEnd(_, _)
NameRunEnd(s, p) ==
    IF p <= Len(s) /\ ~IsSpace(s[p]) /\ s[p] # "," THEN NameRunEnd(s, p + 1) ELSE p

\* \s*,?< at p: the position after the "<", 0 when the tail does not match.
HeaderTail(s, p) ==
    LET q == SkipSpace(s, p)
        r == IF q <= Len(s) /\ s[q] = "," THEN q + 1 ELSE q
    IN  IF r <= Len(s) /\ s[r] = "<" THEN r + 1 ELSE 0

\* (?:\s*\(([^)]*)\))? at p: the optional parameter group.  open is the
\* position of "(", close that of the first ")" after it; 0 when the
\* group cannot match.
ParamGroup(s, p) ==
    LET q == SkipSpace(s, p)
        c == IF q <= Len(s) /\ s[q] = "(" THEN FindChar(s, ")", q + 1) ELSE 0
    IN  [open |-> IF c = 0 THEN 0 ELSE q, close |-> c]

NoMatch == [start |-> 0, end |-> 0, name |-> <<>>, group |-> FALSE, params_raw |-> <<>>]

\* The rest of the pattern once the name is source[ns .. ne - 1]: first with
\* the optional group, then without it.
MatchAfterName(s, p, ns, ne) ==
    LET g       == ParamGroup(s, ne)
        withG   == IF g.close = 0 THEN 0 ELSE HeaderTail(s, g.close + 1)
        without == HeaderTail(s, ne)
    IN  IF withG # 0
        THEN [start |-> p, end |-> withG, name |-> SubSeq(s, ns, ne - 1),
              group |-> TRUE, params_raw |-> SubSeq(s, g.open + 1, g.close - 1)]
        ELSE IF without # 0
        THEN [start |-> p, end |-> without, name |-> SubSeq(s, ns, ne - 1),
              group |-> FALSE, params_raw |-> <<>>]
        ELSE NoMatch

\* Backtracking over the greedy name: the longest name first.
RECURSIVE TryName(_, _, _, _)
TryName(s, p, ns, ne) ==
    IF ne <= ns THEN NoMatch
    ELSE LET m == MatchAfterName(s, p, ns, ne)
         IN  IF m # NoMatch THEN m ELSE TryName(s, p, ns, ne - 1)

\* pattern.match at position p:
\* DEFINE\s+([^,\s]+)(?:\s*\(([^)]*)\))?\s*,?<
HeaderMatchAt(s, p) ==
    IF ~StartsWith(s, p, Keyword) THEN NoMatch
    ELSE LET q  == p + Len(Keyword)
             ns == SkipSpace(s, q)
         IN  IF ns = q THEN NoMatch
             ELSE TryName(s, p, ns, NameRunEnd(s, ns))

\* pattern.finditer(source): the leftmost matches, none overlapping.
RECURSIVE FindIterFrom(_, _)
FindIterFrom(s, p) ==
    IF p > Len(s) THEN <<>>
    ELSE LET m == HeaderMatchAt(s, p)
         IN  IF m = NoMatch THEN FindIterFrom(s, p + 1)
             ELSE <<m>> \o FindIterFrom(s, m.end)

FindIter(s) == FindIterFrom(s, 1)

\* str.strip(): whitespace removed at both ends.
RECURSIVE Strip(_)
Strip(t) ==
    IF t = <<>> THEN t
    ELSE IF IsSpace(t[1]) THEN Strip(Tail(t))
    ELSE IF IsSpace(t[Len(t)]) THEN Strip(SubSeq(t, 1, Len(t) - 1))
    ELSE t

\* str.split(','): the fields between the commas, the empty ones included.
RECURSIVE Split(_)
Split(t) ==
    LET c == FindChar(t, ",", 1)
    IN  IF c = 0 THEN <<t>>
        ELSE <<SubSeq(t, 1, c - 1)>> \o Split(SubSeq(t, c + 1, Len(t)))

\* [p.strip() for p in fields if p.strip()]
RECURSIVE StripAll(_)
StripAll(fields) ==
    IF fields = <<>> THEN <<>>
    ELSE LET f == Strip(fields[1])
         IN  (IF f = <<>> THEN <<>> ELSE <<f>>) \o StripAll(Tail(fields))

\* params_list: empty when the group is absent or holds nothing.
ParamsList(m) ==
    IF ~m.group \/ m.params_raw = <<>> THEN <<>> ELSE StripAll(Split(m.params_raw))

\* The while loop of _iter_macros: from idx with the given depth, the
\* characters kept and the position the loop stops at.
RECURSIVE ScanBody(_, _, _, _)
ScanBody(s, idx, depth, body_chars) ==
    IF ~(idx <= Len(s) /\ depth > 0)
    THEN [body_chars |-> body_chars, idx |-> idx, depth |-> depth]
    ELSE LET ch == s[idx]
         IN  IF ch = "<" THEN ScanBody(s, idx + 1, depth + 1, Append(body_chars, ch))
             ELSE IF ch = ">"
             THEN ScanBody(s, idx + 1, depth - 1,
                           IF depth - 1 > 0 THEN Append(body_chars, ch) ELSE body_chars)
             ELSE ScanBody(s, idx + 1, depth, Append(body_chars, ch))

\* str.rstrip('\n')
RECURSIVE RStripNewlines(_)
RStripNewlines(t) ==
    IF t # <<>> /\ t[Len(t)] = "\n" THEN RStripNewlines(SubSeq(t, 1, Len(t) - 1)) ELSE t

\* source.find('<', match.end()): the search starts after the "<" that the
\* header pattern consumed.
BodyStart(s, m) == FindChar(s, "<", m.end)

\* One pass of the for loop of _iter_macros over the matches ms: the record
\* of each match that has a body start, with the positions it was cut from
\* (at: match.start(), hend: match.end(), open: body_start, stop: idx after
\* the loop).
RECURSIVE Extract(_, _)
Extract(s, ms) ==
    IF ms = <<>> THEN <<>>
    ELSE LET m  == ms[1]
             bs == BodyStart(s, m)
             sc == ScanBody(s, bs + 1, 1, <<>>)
         IN  (IF bs = 0 THEN <<>>
              ELSE <<[macro |-> [name |-> m.name, parameters |-> ParamsList(m),
                                 body |-> RStripNewlines(sc.body_chars), usages |-> 0],
                      span  |-> [at |-> m.start, hend |-> m.end, open |-> bs,
                                 stop |-> sc.idx, depth |-> sc.depth]]>>)
             \o Extract(s, Tail(ms))

\* A scan that looks for the next header only after the position the body
\* loop stopped at, instead of after the header match.
RECURSIVE ExtractResumeAfterBody(_, _)
ExtractResumeAfterBody(s, p) ==
    IF p > Len(s) THEN <<>>
    ELSE LET m == HeaderMatchAt(s, p)
         IN  IF m = NoMatch THEN ExtractResumeAfterBody(s, p + 1)
             ELSE LET one == Extract(s, <<m>>)
                  IN  IF one = <<>> THEN ExtractResumeAfterBody(s, m.end)
                      ELSE one \o ExtractResumeAfterBody(s, one[1].span.stop)

IterMacrosResumeAfterBody(s) == ExtractResumeAfterBody(s, 1)

\* list(_iter_macros(source))
IterMacros(s) == Extract(s, FindIter(s))

\* \b at position p: exactly one of source[p - 1], source[p] is a word
\* character (outside the text counts as a non-word character).
WordAt(s, p) == p >= 1 /\ p <= Len(s) /\ IsWord(s[p])

Boundary(s, p) == WordAt(s, p - 1) # WordAt(s, p)

\* re.compile(rf"\b{re.escape(name)}\b").findall(source): the positions of
\* the matches, left to right, none overlapping.
RECURSIVE UsageMatchesFrom(_, _, _)
UsageMatchesFrom(name, s, p) ==
    IF p > Len(s) THEN <<>>
    ELSE IF StartsWith(s, p, name) /\ Boundary(s, p) /\ Boundary(s, p + Len(name))
    THEN <<p>> \o UsageMatchesFrom(name, s, p + Len(name))
    ELSE UsageMatchesFrom(name, s, p + 1)

UsageMatches(name, s) == UsageMatchesFrom(name, s, 1)

\* macro.usages = len(findall) - 1
Usages(name, s) == Len(UsageMatches(name, s)) - 1

\* body.count('\n')
RECURSIVE CountNewlines(_)
CountNewlines(t) ==
    IF t = <<>> THEN 0
    ELSE (IF t[1] = "\n" THEN 1 ELSE 0) + CountNewlines(Tail(t))

\* One entry of the manifest.
ManifestEntry(m) ==
    [name |-> m.name, parameters |-> m.parameters,
     lines |-> IF m.body # <<>> THEN CountNewlines(m.body) + 1 ELSE 0,
     usages |-> m.usages]

(***************************************************************************)
(* Inputs: texts put together from at most MaxParts parts of a small        *)
(* library.                                                                 *)
(***************************************************************************)
MaxParts == 6

RECURSIVE Concats(_, _)
Concats(lib, n) ==
    IF n = 0 THEN {<<>>}
    ELSE {<<>>} \cup {part \o rest : part \in lib, rest \in Concats(lib, n - 1)}

DefineA == Keyword \o <<" ", "A", " ">>

DefineN == Keyword \o <<" ", "N">>

\* Declarations with a space before "<", bodies with nested brackets and
\* newlines.
ScanParts == {DefineA, <<"<">>, <<">">>, <<"x">>, <<"\n">>}

\* Declarations with parentheses around and between them.
MalParts == {DefineA, <<"(">>, <<")">>, <<"<">>, <<"x">>}

\* One declaration of N: a header (name, parameter list, separator, "<"),
\* a body of at most MaxBody parts and at most MaxRefs parts after it.
MaxBody == 3

MaxRefs == 3

HeadParams == {<<>>, <<"(", "p", ")">>, <<"(", "p", ",", "q", ")">>,
               <<" ", "(", "p", ",", " ", "q", ")">>}

HeadSeps == {<<>>, <<",">>, <<" ">>, <<",", " ">>}

BodyParts == {<<"<">>, <<">">>, <<"x">>, <<"\n">>}

RefParts == {<<"\n", "N">>, <<"(", "p", ")">>, <<"x">>}

HeadTexts(maxBody, maxRefs) ==
    {DefineN \o ps \o sep \o <<"<">> \o body \o refs :
        ps \in HeadParams, sep \in HeadSeps,
        body \in Concats(BodyParts, maxBody), refs \in Concats(RefParts, maxRefs)}

(***************************************************************************)
(* The toolchain: the texts of the patched files are sequences of pieces,   *)
(* each patch string cut into the piece its original and its replacement    *)
(* share and the piece in which they differ.                                *)
(***************************************************************************)
NESASM_PATCHES ==
    << [relative    |-> "src/pcx.c",
        original    |-> <<"\t\t\texpr_lablcnt = ", "NULL;">>,
        replacement |-> <<"\t\t\texpr_lablcnt = ", "0;">>],
       [relative    |-> "src/pcx.c",
        original    |-> <<"\tif (strlen(name) && (strcasecmp(pcx_name, name) == ", "NULL))">>,
        replacement |-> <<"\tif (strlen(name) && (strcasecmp(pcx_name, name) == ", "0))">>],
       [relative    |-> "src/defs.h",
        original    |-> <<"#define SBOLSZ\t", "32">>,
        replacement |-> <<"#define SBOLSZ\t", "128">>] >>

\* The files the patches name.
PatchedFiles == {NESASM_PATCHES[i].relative : i \in 1..Len(NESASM_PATCHES)}

\* pat in text
Contains(text, pat) == \E p \in 1..Len(text) - Len(pat) + 1 : StartsWith(text, p, pat)

\* text.replace(original, replacement): every occurrence, left to right,
\* none overlapping.
RECURSIVE Replace(_, _, _)
Replace(text, original, replacement) ==
    IF text = <<>> THEN <<>>
    ELSE IF StartsWith(text, 1, original)
    THEN replacement \o Replace(SubSeq(text, Len(original) + 1, Len(text)),
                                original, replacement)
    ELSE <<text[1]>> \o Replace(Tail(text), original, replacement)

\* _apply_patch without its first test: the file is rewritten, or the error
\* raised, even when the replacement is already there.
ApplyPatchAlways(text, original, replacement) ==
    IF ~Contains(text, original) THEN [text |-> text, raised |-> TRUE]
    ELSE [text |-> Replace(text, original, replacement), raised |-> FALSE]

\* _apply_patch on a file holding text: the text the file holds afterwards
\* and whether RuntimeError was raised.
ApplyPatch(text, original, replacement) ==
    IF Contains(text, replacement) THEN [text |-> text, raised |-> FALSE]
    ELSE IF ~Contains(text, original) THEN [text |-> text, raised |-> TRUE]
    ELSE [text |-> Replace(text, original, replacement), raised |-> FALSE]

\* The texts the files can hold at NESASM_REPO: at most MaxPcxParts parts in
\* src/pcx.c and at most MaxDefsParts parts in src/defs.h, patched or not,
\* complete or not.
MaxPcxParts == 3

MaxDefsParts == 1

PcxParts ==
    {NESASM_PATCHES[1].original, NESASM_PATCHES[1].replacement,
     NESASM_PATCHES[2].original, NESASM_PATCHES[2].replacement,
     <<NESASM_PATCHES[1].original[1]>>, <<"x">>}

DefsParts ==
    {NESASM_PATCHES[3].original, NESASM_PATCHES[3].replacement,
     <<NESASM_PATCHES[3].original[1]>>}

Clones(maxPcx, maxDefs) ==
    {[f \in PatchedFiles |-> IF f = "src/pcx.c" THEN pcx ELSE defs] :
        pcx \in Concats(PcxParts, maxPcx), defs \in Concats(DefsParts, maxDefs)}

\* No checkout: the files hold nothing.
NoFiles == [f \in PatchedFiles |-> <<>>]

\* The tool directory after __init__: no checkout, no binary, no call of
\* ensure_nesasm running or finished; upstream is what NESASM_REPO holds.
ToolInit(clones) ==
    /\ upstream \in clones
    /\ repo_exists = FALSE
    /\ files = NoFiles
    /\ binary_exists = FALSE
    /\ tpc = "idle"
    /\ force = FALSE
    /\ patch_idx = 0
    /\ result = "none"
    /\ settled = FALSE

(***************************************************************************)
(* The state machine.  pc: "start" (the file holds source), "analysed"      *)
(* (analyse_macros returned macros), "written" (write_manifest wrote        *)
(* manifest).  spans keeps, beside each record of macros, the positions it  *)
(* was cut from.                                                            *)
(***************************************************************************)
InitWith(texts) ==
    /\ source \in texts
    /\ macros = <<>>
    /\ spans = <<>>
    /\ manifest = <<>>
    /\ pc = "start"
    /\ ToolInit({NoFiles})

Init == InitWith(Concats(ScanParts, MaxParts))

\* The list analyse_macros returns: the records of _iter_macros, each with
\* its usage count filled in.
Analysed(s) ==
    LET found == IterMacros(s)
    IN  [i \in 1..Len(found) |->
            [found[i].macro EXCEPT !.usages = Usages(found[i].macro.name, s)]]

\* The positions each record of _iter_macros was cut from.
SpansOf(s) ==
    LET found == IterMacros(s)
    IN  [i \in 1..Len(found) |-> found[i].span]

\* The list write_manifest serialises.
ManifestOf(ms) == [i \in 1..Len(ms) |-> ManifestEntry(ms[i])]

AnalyseMacros ==
    /\ pc = "start"
    /\ macros' = Analysed(source)
    /\ spans' = SpansOf(source)
    /\ pc' = "analysed"
    /\ UNCHANGED <<source, manifest, toolVars>>

WriteManifest ==
    /\ pc = "analysed"
    /\ manifest' = ManifestOf(macros)
    /\ pc' = "written"
    /\ UNCHANGED <<source, macros, spans, toolVars>>

Next == AnalyseMacros \/ WriteManifest

Spec == Init /\ [][Next]_vars

InitHead == InitWith(HeadTexts(MaxBody, MaxRefs))

SpecHead == InitHead /\ [][Next]_vars

InitMal == InitWith(Concats(MalParts, MaxParts))

SpecMal == InitMal /\ [][Next]_vars

(***************************************************************************)
(* ensure_nesasm, one step at a time.  tpc: "idle" (no call running),       *)
(* "patch" (in the for loop, about to apply patch patch_idx), "build"       *)
(* (after the loop).  force is the argument of the running call, result     *)
(* how the last call ended ("none", "returned", "raised").  settled records *)
(* that a call has returned and no call with force has started since.       *)
(* files holds the texts of the checkout, upstream those a clone fetches.   *)
(***************************************************************************)
\* The call ends with an exception.
Raise ==
    /\ tpc' = "idle"
    /\ force' = FALSE
    /\ patch_idx' = 0
    /\ result' = "raised"

\* The call returns binary.
Return ==
    /\ tpc' = "idle"
    /\ force' = FALSE
    /\ patch_idx' = 0
    /\ result' = "returned"
    /\ settled' = TRUE

\* ensure_nesasm(force = f) up to the for loop: the checkout is removed
\* when forced, and cloned when absent; git clone fails or leaves a checkout.
Call(f) ==
    /\ tpc = "idle"
    /\ settled' = (settled /\ ~f)
    /\ IF repo_exists /\ ~f
       THEN /\ tpc' = "patch"
            /\ force' = f
            /\ patch_idx' = 1
            /\ result' = "none"
            /\ UNCHANGED <<repo_exists, files, binary_exists>>
       ELSE \/ /\ repo_exists' = FALSE
               /\ files' = NoFiles
               /\ binary_exists' = FALSE
               /\ Raise
            \/ /\ repo_exists' = TRUE
               /\ files' = upstream
               /\ binary_exists' = FALSE
               /\ tpc' = "patch"
               /\ force' = f
               /\ patch_idx' = 1
               /\ result' = "none"
    /\ UNCHANGED <<upstream, macroVars>>

\* One turn of the for loop: _apply_patch with the entry patch_idx.
PatchStep ==
    /\ tpc = "patch"
    /\ LET p == NESASM_PATCHES[patch_idx]
           r == ApplyPatch(files[p.relative], p.original, p.replacement)
       IN  /\ files' = [files EXCEPT ![p.relative] = r.text]
           /\ IF r.raised THEN Raise
              ELSE /\ tpc' = IF patch_idx < Len(NESASM_PATCHES) THEN "patch" ELSE "build"
                   /\ patch_idx' = IF patch_idx < Len(NESASM_PATCHES) THEN patch_idx + 1 ELSE 0
                   /\ UNCHANGED <<force, result>>
    /\ UNCHANGED <<upstream, repo_exists, binary_exists, settled, macroVars>>

\* After the loop: make runs when the binary is missing or the call is
\* forced.  It fails, having written a binary or not, or it ends; without a
\* binary afterwards the call raises, with one it returns.
Build ==
    /\ tpc = "build"
    /\ IF binary_exists /\ ~force
       THEN Return /\ UNCHANGED binary_exists
       ELSE \/ /\ binary_exists' \in {binary_exists, TRUE}
               /\ Raise
               /\ UNCHANGED settled
            \/ /\ binary_exists' = TRUE
               /\ Return
    /\ UNCHANGED <<upstream, repo_exists, files, macroVars>>

NextTool == (\E f \in BOOLEAN : Call(f)) \/ PatchStep \/ Build

InitTool ==
    /\ source = <<>>
    /\ macros = <<>>
    /\ spans = <<>>
    /\ manifest = <<>>
    /\ pc = "start"
    /\ ToolInit(Clones(MaxPcxParts, MaxDefsParts))

SpecTool == InitTool /\ [][NextTool]_vars

(***************************************************************************)
(* Declarations as the specification describes them: DEFINE, whitespace, a  *)
(* name, an optional parenthesised parameter list, an optional comma, "<".  *)
(***************************************************************************)
\* The end of a name: the first position >= p holding whitespace, a comma,
\* "(" or "<".
RECURSIVE DeclNameEnd(_, _)
DeclNameEnd(s, p) ==
    IF p <= Len(s) /\ ~IsSpace(s[p]) /\ s[p] \notin {",", "(", "<"}
    THEN DeclNameEnd(s, p + 1) ELSE p

CharAt(s, p) == IF p >= 1 /\ p <= Len(s) THEN s[p] ELSE ""

\* The declaration header that starts at p: ok says whether there is one,
\* open is the position of the "<" that ends it.
DeclAt(s, p) ==
    LET q      == p + Len(Keyword)
        ns     == SkipSpace(s, q)
        ne     == DeclNameEnd(s, ns)
        po     == SkipSpace(s, ne)
        listed == CharAt(s, po) = "("
        pclose == IF listed THEN FindChar(s, ")", po + 1) ELSE 0
        after  == IF listed THEN pclose + 1 ELSE ne
        a1     == SkipSpace(s, after)
        a2     == IF CharAt(s, a1) = "," THEN SkipSpace(s, a1 + 1) ELSE a1
    IN  [ok     |-> /\ StartsWith(s, p, Keyword)
                    /\ ns > q
                    /\ ne > ns
                    /\ \A k \in ns..(ne - 1) : s[k] \notin {")", ">"}
                    /\ listed => pclose # 0
                    /\ CharAt(s, a2) = "<",
         name   |-> SubSeq(s, ns, ne - 1),
         listed |-> listed,
         nend   |-> ne,
         popen  |-> IF listed THEN po ELSE 0,
         list   |-> IF listed /\ pclose # 0 THEN SubSeq(s, po + 1, pclose - 1) ELSE <<>>,
         open   |-> a2]

\* The first declaration at or after position p, 0 when there is none.
RECURSIVE FirstDeclFrom(_, _)
FirstDeclFrom(s, p) ==
    IF p > Len(s) THEN 0
    ELSE IF DeclAt(s, p).ok THEN p
    ELSE FirstDeclFrom(s, p + 1)

\* The ">" that brings the depth back to 0, scanning from p at the given
\* depth; 0 when the end of the text comes first.
RECURSIVE ClosingFrom(_, _, _)
ClosingFrom(s, p, depth) ==
    IF p > Len(s) THEN 0
    ELSE IF s[p] = "<" THEN ClosingFrom(s, p + 1, depth + 1)
    ELSE IF s[p] = ">" THEN (IF depth = 1 THEN p ELSE ClosingFrom(s, p + 1, depth - 1))
    ELSE ClosingFrom(s, p + 1, depth)

\* The closing delimiter of the body opened by the "<" at position o.
ClosingOf(s, o) == ClosingFrom(s, o + 1, 1)

\* A text without its leading and trailing newlines.
RECURSIVE TrimNewlines(_)
TrimNewlines(t) ==
    IF t = <<>> THEN t
    ELSE IF t[1] = "\n" THEN TrimNewlines(Tail(t))
    ELSE IF t[Len(t)] = "\n" THEN TrimNewlines(SubSeq(t, 1, Len(t) - 1))
    ELSE t

Chars(t) == {t[k] : k \in 1..Len(t)}

\* The declarations of a text, left to right, the search for the next one
\* resuming after the body of the one before: for each the position of its
\* DEFINE and its body (to the closing delimiter, or to the end of the text).
RECURSIVE DeclsFrom(_, _)
DeclsFrom(s, p) ==
    LET d == FirstDeclFrom(s, p)
    IN  IF d = 0 THEN <<>>
        ELSE LET o == DeclAt(s, d).open
                 c == ClosingOf(s, o)
                 e == IF c = 0 THEN Len(s) + 1 ELSE c
             IN  <<[at |-> d, name |-> DeclAt(s, d).name, body |-> SubSeq(s, o + 1, e - 1)]>>
                 \o DeclsFrom(s, e + 1)

Decls(s) == DeclsFrom(s, 1)

(***************************************************************************)
(* C1.  Nested brackets in a body.                                          *)
(***************************************************************************)
\* C1: the first declaration of the text, when its body is closed and holds
\* a nested "<", yields a record whose body is the text between the "<"
\* that ends the header and the ">" that brings the depth back to 0.
C1_NestedBody ==
    pc # "start" =>
        LET d == FirstDeclFrom(source, 1)
            o == DeclAt(source, d).open
            c == ClosingOf(source, o)
        IN  (d # 0 /\ c # 0 /\ "<" \in Chars(SubSeq(source, o + 1, c - 1))) =>
                \E i \in 1..Len(macros) :
                    /\ spans[i].at = d
                    /\ TrimNewlines(macros[i].body) = TrimNewlines(SubSeq(source, o + 1, c - 1))

(***************************************************************************)
(* C2.  Name and parameters of a header with a parameter list.              *)
(***************************************************************************)
\* C2: a record cut from a declaration whose parameter list is attached to
\* its name has that name (no "(", ")" or "<" in it) and, as parameters,
\* the entries of the list: split at the commas, trimmed, the empty ones
\* dropped.
C2_HeaderParsed ==
    pc # "start" =>
        \A i \in 1..Len(macros) :
            LET d == DeclAt(source, spans[i].at)
            IN  (d.ok /\ d.listed /\ d.popen = d.nend) =>
                    /\ macros[i].name = d.name
                    /\ Chars(macros[i].name) \cap {"(", ")", "<"} = {}
                    /\ macros[i].parameters = StripAll(Split(d.list))

(***************************************************************************)
(* C3.  Sign of the usage count.                                            *)
(***************************************************************************)
\* C3: the usage count of every record, and of every manifest entry, is
\* at least 0.
C3_UsagesNonNegative ==
    /\ \A i \in 1..Len(macros) : macros[i].usages >= 0
    /\ \A i \in 1..Len(manifest) : manifest[i].usages >= 0

(***************************************************************************)
(* C4.  One declaration followed by k references.                           *)
(***************************************************************************)
C4Header == DefineN \o <<"(", "p", ")", "<">>

RefLine == <<"\n", "N">>

\* The number of reference lines t consists of, -1 when t is anything else.
RECURSIVE RefLines(_)
RefLines(t) ==
    IF t = <<>> THEN 0
    ELSE IF ~StartsWith(t, 1, RefLine) THEN -1
    ELSE LET r == RefLines(SubSeq(t, Len(RefLine) + 1, Len(t)))
         IN  IF r < 0 THEN -1 ELSE r + 1

\* C4: the text DEFINE N(p)<body> with a body free of brackets, followed by
\* k lines that refer to N, yields exactly one record: name N, parameters
\* [p], that body, usages k.
C4_DeclarationWithReferences ==
    pc # "start" =>
        LET c    == FindChar(source, ">", Len(C4Header) + 1)
            body == SubSeq(source, Len(C4Header) + 1, c - 1)
            k    == RefLines(SubSeq(source, c + 1, Len(source)))
        IN  (/\ StartsWith(source, 1, C4Header)
             /\ c # 0
             /\ body # <<>>
             /\ "<" \notin Chars(body)
             /\ k >= 0) =>
                /\ Len(macros) = 1
                /\ macros[1].name = <<"N">>
                /\ macros[1].parameters = << <<"p">> >>
                /\ TrimNewlines(macros[1].body) = TrimNewlines(body)
                /\ macros[1].usages = k

(***************************************************************************)
(* C5.  An empty body.                                                      *)
(***************************************************************************)
\* The positions where name stands as a whole word: no word character
\* right before it or right after it.
WholeWordAt(name, s, q) ==
    /\ StartsWith(s, q, name)
    /\ ~WordAt(s, q - 1)
    /\ ~WordAt(s, q + Len(name))

WholeWords(name, s) == {q \in 1..Len(s) : WholeWordAt(name, s, q)}

\* C5: a text whose only declaration has no parameter list and a "<"
\* directly followed by its ">", with no "<" after it and no other use of
\* the name, yields exactly one record: parameters [], body empty, usages
\* 0, and a manifest entry with lines 0.
C5_EmptyBody ==
    pc = "written" =>
        LET d    == FirstDeclFrom(source, 1)
            decl == DeclAt(source, d)
        IN  (/\ d # 0
             /\ ~decl.listed
             /\ CharAt(source, decl.open + 1) = ">"
             /\ FindChar(source, "<", decl.open + 1) = 0
             /\ Cardinality(WholeWords(decl.name, source)) = 1) =>
                /\ Len(macros) = 1
                /\ macros[1].parameters = <<>>
                /\ macros[1].body = <<>>
                /\ macros[1].usages = 0
                /\ Len(manifest) = 1
                /\ manifest[1].lines = 0

(***************************************************************************)
(* C6.  Which occurrences of a name are counted.                            *)
(***************************************************************************)
\* C6: every occurrence that the usage count of a record counts has a
\* non-word character, or the boundary of the text, on both sides; an
\* occurrence with a letter, a digit or "_" right before or right after it
\* is not counted.
C6_WholeWordOnly ==
    pc # "start" =>
        \A i \in 1..Len(macros) :
            LET hits == UsageMatches(macros[i].name, source)
            IN  /\ macros[i].usages = Len(hits) - 1
                /\ \A k \in 1..Len(hits) : WholeWordAt(macros[i].name, source, hits[k])

(***************************************************************************)
(* C7.  A DEFINE without an opening "<".                                    *)
(***************************************************************************)
\* The first position >= p where DEFINE followed by whitespace starts, 0
\* when there is none.
RECURSIVE NextKeyword(_, _)
NextKeyword(s, p) ==
    IF p > Len(s) THEN 0
    ELSE IF StartsWith(s, p, Keyword) /\ IsSpace(CharAt(s, p + Len(Keyword))) THEN p
    ELSE NextKeyword(s, p + 1)

\* The DEFINE at p has no "<" before the next DEFINE (the one after its
\* name) or the end of the text.
MalformedAt(s, p) ==
    LET ns == SkipSpace(s, p + Len(Keyword))
        nk == NextKeyword(s, DeclNameEnd(s, ns))
        lt == FindChar(s, "<", p)
    IN  /\ NextKeyword(s, p) = p
        /\ lt = 0 \/ (nk # 0 /\ nk < lt)

\* C7: a DEFINE with no "<" before the next DEFINE or the end of the text
\* yields no record; it does not take the "<" of a later declaration.
C7_MalformedSkipped ==
    pc # "start" =>
        \A p \in 1..Len(source) :
            MalformedAt(source, p) => \A i \in 1..Len(spans) : spans[i].at # p

(***************************************************************************)
(* C8.  A body that is never closed.                                        *)
(***************************************************************************)
\* C8: the first declaration of the text, when the end of the text comes
\* before the depth is back at 0, yields a record whose body is the text
\* from the character after its opening "<" to the end.
C8_UnterminatedBody ==
    pc # "start" =>
        LET d == FirstDeclFrom(source, 1)
            o == DeclAt(source, d).open
        IN  (d # 0 /\ ClosingOf(source, o) = 0) =>
                \E i \in 1..Len(macros) :
                    /\ spans[i].at = d
                    /\ TrimNewlines(macros[i].body)
                           = TrimNewlines(SubSeq(source, o + 1, Len(source)))

(***************************************************************************)
(* C9.  One record per declaration, in source order.                        *)
(***************************************************************************)
\* C9: a text with two or more declarations (of the same name or not)
\* yields one record for each, in the order of the text, each with the body
\* of its own declaration, and the manifest lists them in that order.
C9_OneRecordPerDeclaration ==
    pc = "written" =>
        LET ds == Decls(source)
        IN  Len(ds) >= 2 =>
                /\ Len(macros) = Len(ds)
                /\ Len(manifest) = Len(ds)
                /\ \A i \in 1..Len(ds) :
                       /\ i <= Len(macros)
                       /\ spans[i].at = ds[i].at
                       /\ macros[i].name = ds[i].name
                       /\ manifest[i].name = ds[i].name
                       /\ TrimNewlines(macros[i].body) = TrimNewlines(ds[i].body)

(***************************************************************************)
(* C10.  Where the search for the next declaration resumes.                 *)
(***************************************************************************)
\* The leftmost position >= p at which the header pattern matches, 0 when
\* there is none.
RECURSIVE LeftmostHeader(_, _)
LeftmostHeader(s, p) ==
    IF p > Len(s) THEN 0
    ELSE IF HeaderMatchAt(s, p) # NoMatch THEN p
    ELSE LeftmostHeader(s, p + 1)

\* Searching from position r finds record k: the leftmost header match at
\* or after r, when it has a body start, is record k; otherwise there is no
\* record k.
ResumesAt(r, k) ==
    LET q == LeftmostHeader(source, r)
        m == HeaderMatchAt(source, q)
    IN  IF q # 0 /\ BodyStart(source, m) # 0
        THEN k <= Len(spans) /\ spans[k].at = q /\ spans[k].hend = m.end
        ELSE k > Len(spans)

\* C10 as stated: the search resumes where the body ended, so a DEFINE
\* inside an extracted macro body never produces a record of its own: no
\* record starts between the body start and the body end of an earlier one.
C10_NoRecordInsideBody ==
    pc # "start" =>
        \A i, j \in 1..Len(spans) :
            i < j => ~(spans[i].open < spans[j].at /\ spans[j].at < spans[i].stop)

\* C10 as amended: the search for the next DEFINE resumes at the end of the
\* previous header match (just after its "<"), not at the end of the body:
\* each record is the leftmost header match at or after the end of the
\* previous record's header, and the header matches do not overlap.
C10_ResumesAfterHeader ==
    pc # "start" =>
        /\ ResumesAt(1, 1)
        /\ \A i \in 1..Len(spans) : ResumesAt(spans[i].hend, i + 1)
        /\ \A i, j \in 1..Len(spans) : i < j => spans[i].hend <= spans[j].at

\* A record whose DEFINE lies inside the body span of the record before it.
C10_Witness ==
    /\ pc = "analysed"
    /\ Len(spans) >= 2
    /\ spans[1].open < spans[2].at
    /\ spans[2].at < spans[1].stop

(***************************************************************************)
(* C11.  Which newlines of a body are removed.                              *)
(***************************************************************************)
\* The characters the loop collected for the record cut from span sp: those
\* after the body start up to where the loop stopped, without the closing
\* ">" when the loop found it.
Collected(sp) ==
    SubSeq(source, sp.open + 1, IF sp.depth = 0 THEN sp.stop - 2 ELSE sp.stop - 1)

\* C11: the body of every record is the collected text with both its
\* leading and its trailing run of newlines removed and nothing else
\* removed, so no body begins or ends with a newline.
C11_BothEndsTrimmed ==
    pc # "start" =>
        \A i \in 1..Len(macros) :
            LET b == macros[i].body
            IN  /\ b # <<>> => b[1] # "\n" /\ b[Len(b)] # "\n"
                /\ b = TrimNewlines(Collected(spans[i]))

(***************************************************************************)
(* C12.  What _apply_patch and repeated calls of ensure_nesasm do to the    *)
(* patched files.                                                           *)
(***************************************************************************)
\* The number of positions of text at which pat occurs.
Occurrences(text, pat) ==
    Cardinality({p \in 1..Len(text) - Len(pat) + 1 : StartsWith(text, p, pat)})

\* One turn of the for loop does what the claim says of _apply_patch: the
\* other file is left alone, and the file of the entry is unchanged when it
\* holds the replacement, rewritten with every occurrence of the original
\* replaced when it holds the original only, and unchanged with
\* RuntimeError raised when it holds neither.
PatchAsClaimed ==
    tpc = "patch" =>
        LET p == NESASM_PATCHES[patch_idx]
            t == files[p.relative]
            u == files'[p.relative]
        IN  /\ \A f \in PatchedFiles \ {p.relative} : files'[f] = files[f]
            /\ Contains(t, p.replacement) => u = t /\ result' # "raised"
            /\ ~Contains(t, p.replacement) /\ Contains(t, p.original) =>
                  /\ u # t
                  /\ ~Contains(u, p.original)
                  /\ Occurrences(u, p.replacement) = Occurrences(t, p.original)
                  /\ Len(u) = Len(t) + Occurrences(t, p.original)
                                       * (Len(p.replacement) - Len(p.original))
                  /\ result' # "raised"
            /\ ~Contains(t, p.replacement) /\ ~Contains(t, p.original) =>
                  u = t /\ result' = "raised"

\* Every patched file holds the replacement of each of its entries.
AllPatched ==
    \A i \in 1..Len(NESASM_PATCHES) :
        Contains(files[NESASM_PATCHES[i].relative], NESASM_PATCHES[i].replacement)

\* C12: each _apply_patch leaves the file unchanged when it holds the
\* replacement, replaces every occurrence of the original when it holds the
\* original only, and raises without writing when it holds neither; once a
\* call of ensure_nesasm has returned, no step of any further call without
\* force changes a patched file; and after a normal return every patched
\* file holds its replacement texts.
C12_PatchIdempotent ==
    /\ [][PatchAsClaimed]_vars
    /\ [][settled /\ settled' => files' = files]_vars
    /\ [](result = "returned" => AllPatched)

\* A further call without force, after one that returned, has gone through
\* the whole for loop.
C12_Witness ==
    /\ settled
    /\ tpc = "build"
    /\ ~force
    /\ AllPatched

====
